---- MODULE Spec2Model ----
(***************************************************************************)
(* clickhouse-mcp-server: the ClickHouseService (src/clickhouse-service.ts) *)
(* and the protocol adapter with its process lifecycle (src/index.ts).      *)
(*                                                                          *)
(* Strings the code inspects character by character (the SQL text of        *)
(* execute-sql, the question of natural-language-query) are sequences of    *)
(* one-character strings; names the code only passes along (table names,    *)
(* the database name, error messages) are TLA+ strings.                     *)
(***************************************************************************)
EXTENDS Integers, Sequences, FiniteSets, TLC

\* ------------------------------------------------------------------ bounds
\* Request slots of the full server specification (requests alive at once).
MaxReq == 1
\* Request slots of the concurrency specification.
MaxConc == 2
\* Interrupt signals delivered to the process.
MaxSigint == 2
\* Whitespace characters put before and after a generated SQL text.
MaxPad == 1

\* LIMIT of the sample query.
SampleLimit == 5

VARIABLES
  env,            \* process.env: the four settings
  phase,          \* position of the main line (module evaluation, startServer)
  clientsCreated, \* number of createClient() calls (database handles made)
  sigintHandler,  \* TRUE once process.on('SIGINT', ...) has run
  sigints,        \* interrupt signals delivered so far
  closeCalls,     \* number of clickhouseService.close() calls
  closePending,   \* SIGINT handler instances suspended at `await close()`
  exitCode,       \* <<>> while the process lives, <<code>> once it ended
  dbTables,       \* the tables the database holds now
  req             \* request slots: one suspendable handler call chain each

vars == <<env, phase, clientsCreated, sigintHandler, sigints, closeCalls,
          closePending, exitCode, dbTables, req>>

\* ----------------------------------------------------------------- strings
UpperLetters == <<"A","B","C","D","E","F","G","H","I","J","K","L","M",
                  "N","O","P","Q","R","S","T","U","V","W","X","Y","Z">>
LowerLetters == <<"a","b","c","d","e","f","g","h","i","j","k","l","m",
                  "n","o","p","q","r","s","t","u","v","w","x","y","z">>
WhiteSpace == {" ", "\t", "\n", "\r"}

LetterIndex(c) ==
  IF \E i \in 1..26 : UpperLetters[i] = c \/ LowerLetters[i] = c
  THEN CHOOSE i \in 1..26 : UpperLetters[i] = c \/ LowerLetters[i] = c
  ELSE 0

\* String.prototype.toLowerCase on the characters of the model's alphabet.
ToLowerCase(s) ==
  [k \in 1..Len(s) |->
     IF \E i \in 1..26 : UpperLetters[i] = s[k]
     THEN LowerLetters[CHOOSE i \in 1..26 : UpperLetters[i] = s[k]]
     ELSE s[k]]

ToUpperCase(s) ==
  [k \in 1..Len(s) |->
     IF \E i \in 1..26 : LowerLetters[i] = s[k]
     THEN UpperLetters[CHOOSE i \in 1..26 : LowerLetters[i] = s[k]]
     ELSE s[k]]

\* String.prototype.trim: drops the leading and the trailing white space.
Trim(s) ==
  LET keep == {k \in 1..Len(s) : s[k] \notin WhiteSpace}
  IN  IF keep = {} THEN <<>>
      ELSE SubSeq(s, CHOOSE a \in keep : \A b \in keep : a <= b,
                     CHOOSE a \in keep : \A b \in keep : a >= b)

\* String.prototype.includes.
Includes(s, sub) ==
  \E k \in 0..(Len(s) - Len(sub)) : SubSeq(s, k + 1, k + Len(sub)) = sub

\* The six literals of the guard.
BlockedWords ==
  { <<"i","n","s","e","r","t">>, <<"u","p","d","a","t","e">>,
    <<"d","e","l","e","t","e">>, <<"d","r","o","p">>,
    <<"a","l","t","e","r">>,     <<"c","r","e","a","t","e">> }

\* ------------------------------------------------------------ query guard
NormalizeQueryNoLowerCase(query) == Trim(query)

\* const normalizedQuery = query.trim().toLowerCase();
NormalizeQuery(query) == ToLowerCase(Trim(query))

\* The condition of the `if` that throws 'Only read-only queries are allowed'.
GuardRejects(query) ==
  \E w \in BlockedWords : Includes(NormalizeQuery(query), w)

QueryTextNormalized(query) == NormalizeQuery(query)

\* The `query` property of the object handed to this.client.query().
QueryTextSent(query) == query

\* ------------------------------------------------------------ environment
Settings == {"CLICKHOUSE_URL", "CLICKHOUSE_USERNAME", "CLICKHOUSE_PASSWORD",
             "CLICKHOUSE_DATABASE"}
Unset == "<undefined>"
SettingValues == {Unset, "", "analytics"}

\* JavaScript `!value` for a string or undefined.
Falsy(v) == v = Unset \/ v = ""

EnvInvalidOnlyUrl == Falsy(env["CLICKHOUSE_URL"])

\* The condition of the validation `if` of clickhouse-service.ts.
EnvInvalid == \E s \in Settings : Falsy(env[s])

CLICKHOUSE_DATABASE == env["CLICKHOUSE_DATABASE"]


\* --------------------------------------------------------------- database
\* The tables the database may hold, in the order SHOW TABLES lists them.
TableOrder == <<"__proto__", "events", "users">>
TableNames == {TableOrder[k] : k \in 1..Len(TableOrder)}
\* The tables other clients of the database create and drop.
VolatileTables == {"__proto__", "events"}

ColumnsOf(t) ==
  CASE t = "events" -> <<[name |-> "id", type |-> "UInt64"],
                         [name |-> "ts", type |-> "DateTime"]>>
    [] t = "users"  -> <<[name |-> "id", type |-> "UInt64"],
                         [name |-> "name", type |-> "String"]>>
    [] OTHER        -> <<[name |-> "key", type |-> "String"]>>

\* The rows SHOW TABLES answers with: one {name} row per table.
ShowTablesRows ==
  LET F[k \in 0..Len(TableOrder)] ==
        IF k = 0 THEN <<>>
        ELSE IF TableOrder[k] \in dbTables
             THEN Append(F[k - 1], [name |-> TableOrder[k]])
             ELSE F[k - 1]
  IN  F[Len(TableOrder)]

\* The rows a SELECT answers with (their content is not inspected).
QueryRows == <<[id |-> 1]>>

\* Values a database call may reject with: Error objects, and one value
\* that is no Error instance.
ErrorObject(m) == [instanceofError |-> TRUE, message |-> m]
NonErrorValue(v) == [instanceofError |-> FALSE, value |-> v]
DbFailures == {ErrorObject("connect ECONNREFUSED"), NonErrorValue("aborted")}
UnknownTable == ErrorObject("Unknown table")
GuardError == ErrorObject("Only read-only queries are allowed")

\* The failures the database may answer a per-table statement with.
TableFailures(t) ==
  DbFailures \cup (IF t \in dbTables THEN {} ELSE {UnknownTable})

\* -------------------------------------------------------- plain JS object
\* A Record<string, V> built from `{}`: its own enumerable string keys in
\* insertion order.  obj[key] = value with key "__proto__" runs the
\* Object.prototype.__proto__ setter (value is an array, so the prototype
\* is replaced) and creates no own property.
ObjectSetAlways(obj, key, value) ==
  IF \E j \in 1..Len(obj) : obj[j].key = key
  THEN [j \in 1..Len(obj) |->
          IF obj[j].key = key THEN [key |-> key, value |-> value] ELSE obj[j]]
  ELSE Append(obj, [key |-> key, value |-> value])

ObjectSet(obj, key, value) ==
  IF key = "__proto__" THEN obj ELSE ObjectSetAlways(obj, key, value)

ObjectKeys(obj) == {obj[j].key : j \in 1..Len(obj)}

\* JSON.stringify(value, null, 2): own enumerable properties only, which is
\* what the object model holds.
JSONStringify(value) == [json |-> value, indent |-> 2]

\* ---------------------------------------------------------------- requests
ResourceKinds == {"database-info", "table-schema", "table-sample"}
ListKinds == {"table-schema/list", "table-sample/list"}
ToolKinds == {"execute-sql", "natural-language-query"}

NoResp == [outcome |-> "none"]

IdleReq ==
  [kind |-> "none", table |-> "", text |-> <<>>, pc |-> "idle",
   listed |-> <<>>, tables |-> <<>>, i |-> 0, tableSchemas |-> <<>>,
   calls |-> <<>>, answered |-> 0, failure |-> <<>>, resp |-> NoResp]

AwaitPcs == {"listTables", "getTableSchema", "executeQuery",
             "getTableSampleData"}

Alive == exitCode = <<>>

\* The slot a new request takes: the lowest one never used.
FreeSlot(r) ==
  /\ req[r].pc = "idle"
  /\ \A k \in DOMAIN req : k < r => req[k].pc # "idle"

\* A request can be dispatched once the transport is connected.
CanDispatch(r) == Alive /\ phase = "running" /\ FreeSlot(r)

HandleClosed == closeCalls > 0

\* --- the statements ClickHouseService hands to this.client.query()
ShowTablesCall ==
  [op |-> "SHOW TABLES FROM", db |-> CLICKHOUSE_DATABASE,
   closed |-> HandleClosed]
DescribeCall(tableName) ==
  [op |-> "DESCRIBE TABLE", db |-> CLICKHOUSE_DATABASE, table |-> tableName,
   closed |-> HandleClosed]
SampleCall(tableName) ==
  [op |-> "SELECT * FROM", db |-> CLICKHOUSE_DATABASE, table |-> tableName,
   limit |-> SampleLimit, closed |-> HandleClosed]
RawCall(query) ==
  [op |-> "raw", query |-> QueryTextSent(query), closed |-> HandleClosed]

\* --- ClickHouseService methods up to their first await
listTables(s) ==
  [s EXCEPT !.pc = "listTables", !.calls = Append(@, ShowTablesCall)]

getTableSchema(s, tableName) ==
  [s EXCEPT !.pc = "getTableSchema",
            !.calls = Append(@, DescribeCall(tableName))]

getTableSampleData(s, tableName) ==
  [s EXCEPT !.pc = "getTableSampleData",
            !.calls = Append(@, SampleCall(tableName))]

\* --- a database call of the chain is answered / rejected with `error`
\* (bookkeeping: `answered` counts the round trips that ended, `failure`
\* keeps the value the chain's operation failed with)
Answered(s) == [s EXCEPT !.answered = @ + 1]
Rejected(s, error) == [s EXCEPT !.answered = @ + 1, !.failure = <<error>>]

\* --- how a handler ends
ResourceReturned(s, contents) ==
  [s EXCEPT !.pc = "done",
            !.resp = [outcome |-> "returned", isError |-> FALSE,
                      contents |-> contents]]
ToolReturned(s, text) ==
  [s EXCEPT !.pc = "done",
            !.resp = [outcome |-> "returned", isError |-> FALSE,
                      text |-> text]]
Thrown(s, error) ==
  [s EXCEPT !.pc = "done", !.resp = [outcome |-> "thrown", error |-> error]]

\* String(error).  Error.prototype.toString gives "Error: <message>".
StringOf(error) ==
  IF error.instanceofError THEN <<"Error: ", error.message>>
  ELSE <<error.value>>

ErrorMessageAlwaysString(error) == StringOf(error)

\* error instanceof Error ? error.message : String(error)
ErrorMessage(error) ==
  IF error.instanceofError THEN <<error.message>> ELSE StringOf(error)

\* { content: [{ type: "text", text: `Error: ${errorMessage}` }], isError: true }
ErrorResponse(s, error) ==
  [s EXCEPT !.pc = "done",
            !.resp = [outcome |-> "returned", isError |-> TRUE,
                      text |-> <<"Error: ">> \o ErrorMessage(error)]]

CatchRethrow(s, error) == Thrown(s, error)
CatchSwallow(s, error) == ErrorResponse(s, error)

\* catch blocks of the three resource handlers: log and rethrow.
CatchDatabaseInfo(s, error) == Thrown(s, error)
CatchTableSchema(s, error) == Thrown(s, error)
CatchTableSample(s, error) == Thrown(s, error)
\* The list callbacks have no catch: the rejection of listTables propagates.
ListCallbackRejects(s, error) == Thrown(s, error)
\* catch blocks of the two tool handlers: log and answer in band.
CatchExecuteSql(s, error) == ErrorResponse(s, error)
CatchNaturalLanguageQuery(s, error) == ErrorResponse(s, error)

HandlerCatch(s, error) ==
  CASE s.kind = "database-info"          -> CatchDatabaseInfo(s, error)
    [] s.kind = "table-schema"           -> CatchTableSchema(s, error)
    [] s.kind = "table-sample"           -> CatchTableSample(s, error)
    [] s.kind \in ListKinds              -> ListCallbackRejects(s, error)
    [] s.kind = "execute-sql"            -> CatchExecuteSql(s, error)
    [] s.kind = "natural-language-query" -> CatchNaturalLanguageQuery(s, error)


\* executeQuery up to its first await: the guard, then the database call.
executeQuery(s, query) ==
  IF GuardRejects(query)
  THEN HandlerCatch([s EXCEPT !.failure = <<GuardError>>], GuardError)
  ELSE [s EXCEPT !.pc = "executeQuery", !.calls = Append(@, RawCall(query))]

\* --- getDatabaseInfo after listTables() has resolved
DatabaseInfo(s) ==
  [database |-> CLICKHOUSE_DATABASE, tables |-> s.tables,
   schemas |-> s.tableSchemas]

\* `Table "X" has columns: a (t), b (u)`: one rendered column per entry.
SchemaLine(entry) ==
  [table |-> entry.key,
   columns |-> [k \in 1..Len(entry.value) |->
                  <<entry.value[k].name, " (", entry.value[k].type, ")">>]]

\* Object.entries(dbInfo.schemas).map(...): one line per own key.
SchemaInfo(dbInfo) ==
  [j \in 1..Len(dbInfo.schemas) |-> SchemaLine(dbInfo.schemas[j])]

\* What the handler does with the snapshot getDatabaseInfo() returned.
DatabaseInfoReturned(s) ==
  IF s.kind = "database-info"
  THEN ResourceReturned(s, [uri |-> "db://info", mimeType |-> "application/json",
                            text |-> JSONStringify(DatabaseInfo(s))])
  ELSE ToolReturned(s, [question |-> s.text,
                        schemaInfo |-> SchemaInfo(DatabaseInfo(s)),
                        suggestion |-> "execute-sql"])

DatabaseInfoLoopParallel(s) ==
  IF s.i < Len(s.tables)
  THEN [s EXCEPT !.pc = "getTableSchema", !.i = Len(s.tables),
                 !.calls = @ \o [k \in 1..(Len(s.tables) - s.i) |->
                                   DescribeCall(s.tables[s.i + k])]]
  ELSE DatabaseInfoReturned(s)

\* for (const table of tables) { tableSchemas[table] = await getTableSchema(table) }
\* s.i tables are done: fetch the next one, or return the snapshot.
DatabaseInfoLoop(s) ==
  IF s.i < Len(s.tables)
  THEN getTableSchema([s EXCEPT !.i = @ + 1], s.tables[s.i + 1])
  ELSE DatabaseInfoReturned(s)

getDatabaseInfoCatchReturnsPartial(s, error) == DatabaseInfoReturned(s)

\* The catch block of getDatabaseInfo: log and rethrow, to the handler.
\* (listTables and getTableSchema rethrow in the same way before it.)
getDatabaseInfoCatch(s, error) == HandlerCatch(s, error)

ChainCatchRetry(s, error) ==
  [s EXCEPT !.calls = Append(@, @[Len(@)])]

\* Where a rejected database call of the chain ends up.
ChainCatch(s, error) ==
  IF s.kind \in {"database-info", "natural-language-query"}
  THEN getDatabaseInfoCatch(s, error)
  ELSE HandlerCatch(s, error)

\* The table of the statement the slot is waiting on.
AwaitedTable(s) == s.calls[Len(s.calls)].table

\* Array.isArray(tableName) ? tableName[0] : tableName
TableNameStr(tableName, isArray) == IF isArray THEN tableName[1] ELSE tableName

UnchangedProcess ==
  UNCHANGED <<env, phase, clientsCreated, sigintHandler, sigints, closeCalls,
              closePending, exitCode>>

\* ------------------------------------------------------- request handlers
\* resource db://info
ReadDatabaseInfo(r) ==
  /\ CanDispatch(r)
  /\ req' = [req EXCEPT ![r] = listTables([IdleReq EXCEPT !.kind = "database-info"])]
  /\ UNCHANGED dbTables /\ UnchangedProcess

\* the list callbacks of the two resource templates
ListResources(r, kind) ==
  /\ CanDispatch(r)
  /\ req' = [req EXCEPT ![r] = listTables([IdleReq EXCEPT !.kind = kind])]
  /\ UNCHANGED dbTables /\ UnchangedProcess

\* resource table://{tableName}/schema
ReadTableSchema(r, t, isArray) ==
  /\ CanDispatch(r)
  /\ LET tableNameStr == TableNameStr(IF isArray THEN <<t>> ELSE t, isArray)
     IN  req' = [req EXCEPT ![r] =
                   getTableSchema([IdleReq EXCEPT !.kind = "table-schema",
                                                  !.table = tableNameStr],
                                  tableNameStr)]
  /\ UNCHANGED dbTables /\ UnchangedProcess

\* resource table://{tableName}/sample
ReadTableSample(r, t, isArray) ==
  /\ CanDispatch(r)
  /\ LET tableNameStr == TableNameStr(IF isArray THEN <<t>> ELSE t, isArray)
     IN  req' = [req EXCEPT ![r] =
                   getTableSampleData([IdleReq EXCEPT !.kind = "table-sample",
                                                      !.table = tableNameStr],
                                      tableNameStr)]
  /\ UNCHANGED dbTables /\ UnchangedProcess

\* tool execute-sql
CallExecuteSql(r, query) ==
  /\ CanDispatch(r)
  /\ req' = [req EXCEPT ![r] =
               executeQuery([IdleReq EXCEPT !.kind = "execute-sql",
                                            !.text = query], query)]
  /\ UNCHANGED dbTables /\ UnchangedProcess

\* tool natural-language-query
CallNaturalLanguageQuery(r, question) ==
  /\ CanDispatch(r)
  /\ req' = [req EXCEPT ![r] =
               listTables([IdleReq EXCEPT !.kind = "natural-language-query",
                                          !.text = question])]
  /\ UNCHANGED dbTables /\ UnchangedProcess

\* ------------------------------------- the database answers, the chain resumes
ListTablesReturn(r) ==
  /\ Alive /\ req[r].pc = "listTables"
  /\ LET rows == ShowTablesRows
         s == [Answered(req[r]) EXCEPT !.listed = rows,
                             !.tables = [k \in 1..Len(rows) |-> rows[k].name]]
     IN  req' = [req EXCEPT ![r] =
                   IF s.kind \in ListKinds
                   THEN ResourceReturned(s,
                          [k \in 1..Len(s.tables) |->
                             [name |-> s.tables[k],
                              uri |-> <<"table://", s.tables[k],
                                        IF s.kind = "table-schema/list"
                                        THEN "/schema" ELSE "/sample">>]])
                   ELSE DatabaseInfoLoop(s)]
  /\ UNCHANGED dbTables /\ UnchangedProcess

ListTablesThrow(r, error) ==
  /\ Alive /\ req[r].pc = "listTables"
  /\ error \in DbFailures
  /\ req' = [req EXCEPT ![r] = ChainCatch(Rejected(req[r], error), error)]
  /\ UNCHANGED dbTables /\ UnchangedProcess

GetTableSchemaReturn(r) ==
  /\ Alive /\ req[r].pc = "getTableSchema"
  /\ AwaitedTable(req[r]) \in dbTables
  /\ LET t == AwaitedTable(req[r])
         data == ColumnsOf(t)
     IN  req' = [req EXCEPT ![r] =
                   IF req[r].kind = "table-schema"
                   THEN ResourceReturned(Answered(req[r]),
                          [uri |-> <<"table://", t, "/schema">>,
                           mimeType |-> "application/json",
                           text |-> JSONStringify(data)])
                   ELSE DatabaseInfoLoop(
                          [Answered(req[r]) EXCEPT
                             !.tableSchemas = ObjectSet(@, t, data)])]
  /\ UNCHANGED dbTables /\ UnchangedProcess

GetTableSchemaThrow(r, error) ==
  /\ Alive /\ req[r].pc = "getTableSchema"
  /\ error \in TableFailures(AwaitedTable(req[r]))
  /\ req' = [req EXCEPT ![r] = ChainCatch(Rejected(req[r], error), error)]
  /\ UNCHANGED dbTables /\ UnchangedProcess

ExecuteQueryReturn(r) ==
  /\ Alive /\ req[r].pc = "executeQuery"
  /\ req' = [req EXCEPT ![r] = ToolReturned(Answered(req[r]),
                                               JSONStringify(QueryRows))]
  /\ UNCHANGED dbTables /\ UnchangedProcess

ExecuteQueryThrow(r, error) ==
  /\ Alive /\ req[r].pc = "executeQuery"
  /\ error \in DbFailures
  /\ req' = [req EXCEPT ![r] = ChainCatch(Rejected(req[r], error), error)]
  /\ UNCHANGED dbTables /\ UnchangedProcess

GetTableSampleDataReturn(r) ==
  /\ Alive /\ req[r].pc = "getTableSampleData"
  /\ AwaitedTable(req[r]) \in dbTables
  /\ req' = [req EXCEPT ![r] =
               ResourceReturned(Answered(req[r]),
                 [uri |-> <<"table://", AwaitedTable(req[r]), "/sample">>,
                  mimeType |-> "application/json",
                  text |-> JSONStringify(QueryRows)])]
  /\ UNCHANGED dbTables /\ UnchangedProcess

GetTableSampleDataThrow(r, error) ==
  /\ Alive /\ req[r].pc = "getTableSampleData"
  /\ error \in TableFailures(AwaitedTable(req[r]))
  /\ req' = [req EXCEPT ![r] = ChainCatch(Rejected(req[r], error), error)]
  /\ UNCHANGED dbTables /\ UnchangedProcess

\* Another client of the database creates or drops a table.
CreateTable(t) ==
  /\ Alive /\ phase = "running"
  /\ t \in VolatileTables \ dbTables
  /\ dbTables' = dbTables \cup {t}
  /\ UNCHANGED req /\ UnchangedProcess

DropTable(t) ==
  /\ Alive /\ phase = "running"
  /\ t \in VolatileTables \cap dbTables
  /\ dbTables' = dbTables \ {t}
  /\ UNCHANGED req /\ UnchangedProcess


\* ------------------------------------------------------- process lifecycle
UnchangedRequests == UNCHANGED <<env, dbTables, req>>

\* The process ends: every suspended call chain ends with it.
ProcessEnds(code) ==
  /\ phase' = "exited"
  /\ exitCode' = <<code>>
  /\ req' = [r \in DOMAIN req |-> IdleReq]
  /\ UNCHANGED <<env, dbTables>>

\* Evaluation of clickhouse-service.ts, which index.ts imports first: the
\* validation throws at module level, an uncaught exception (exit code 1).
LoadServiceModule ==
  /\ Alive /\ phase = "import"
  /\ IF EnvInvalid
     THEN ProcessEnds(1)
     ELSE phase' = "validated" /\ UNCHANGED exitCode /\ UnchangedRequests
  /\ UNCHANGED <<clientsCreated, sigintHandler, sigints, closeCalls, closePending>>

\* const clickhouseService = new ClickHouseService(): createClient(...)
ConstructService ==
  /\ Alive /\ phase = "validated"
  /\ clientsCreated' = clientsCreated + 1
  /\ phase' = "constructed"
  /\ UNCHANGED <<sigintHandler, sigints, closeCalls, closePending, exitCode>>
  /\ UnchangedRequests

\* startServer() up to `await server.connect(transport)`
StartServer ==
  /\ Alive /\ phase = "constructed"
  /\ phase' = "connecting"
  /\ UNCHANGED <<clientsCreated, sigintHandler, sigints, closeCalls,
                 closePending, exitCode>>
  /\ UnchangedRequests

\* server.connect resolved: process.on('SIGINT', ...) registers the handler
ConnectResolved ==
  /\ Alive /\ phase = "connecting"
  /\ phase' = "running"
  /\ sigintHandler' = TRUE
  /\ UNCHANGED <<clientsCreated, sigints, closeCalls, closePending, exitCode>>
  /\ UnchangedRequests

ConnectRejectedNoClose ==
  /\ Alive /\ phase = "connecting"
  /\ phase' = "catch"
  /\ UNCHANGED <<clientsCreated, sigintHandler, sigints, closeCalls,
                 closePending, exitCode>>
  /\ UnchangedRequests

\* server.connect rejected: the catch block up to `await clickhouseService.close()`
ConnectRejected ==
  /\ Alive /\ phase = "connecting"
  /\ phase' = "catch"
  /\ closeCalls' = closeCalls + 1
  /\ UNCHANGED <<clientsCreated, sigintHandler, sigints, closePending, exitCode>>
  /\ UnchangedRequests

\* the catch block after the close resolved: process.exit(1)
CatchCloseResolved ==
  /\ Alive /\ phase = "catch"
  /\ ProcessEnds(1)
  /\ UNCHANGED <<clientsCreated, sigintHandler, sigints, closeCalls, closePending>>

\* An interrupt while no handler is registered: the default action ends the
\* process at once (status 128 + 2), whatever the main line was doing.
SigintDefault ==
  /\ Alive /\ sigints < MaxSigint
  /\ ~sigintHandler
  /\ sigints' = sigints + 1
  /\ ProcessEnds(128 + 2)
  /\ UNCHANGED <<clientsCreated, sigintHandler, closeCalls, closePending>>

SigintHandlerOnce ==
  /\ Alive /\ sigints < MaxSigint
  /\ sigintHandler
  /\ sigints' = sigints + 1
  /\ closeCalls' = IF closeCalls = 0 THEN 1 ELSE closeCalls
  /\ closePending' = closePending + 1
  /\ UNCHANGED <<phase, clientsCreated, sigintHandler, exitCode>>
  /\ UnchangedRequests

SigintHandlerExitsFirst ==
  /\ Alive /\ sigints < MaxSigint
  /\ sigintHandler
  /\ sigints' = sigints + 1
  /\ ProcessEnds(0)
  /\ UNCHANGED <<clientsCreated, sigintHandler, closeCalls, closePending>>

\* The SIGINT handler up to `await clickhouseService.close()`
SigintHandler ==
  /\ Alive /\ sigints < MaxSigint
  /\ sigintHandler
  /\ sigints' = sigints + 1
  /\ closeCalls' = closeCalls + 1
  /\ closePending' = closePending + 1
  /\ UNCHANGED <<phase, clientsCreated, sigintHandler, exitCode>>
  /\ UnchangedRequests

\* The SIGINT handler after its close resolved: process.exit(0)
SigintCloseResolved ==
  /\ Alive /\ closePending > 0
  /\ closePending' = closePending - 1
  /\ ProcessEnds(0)
  /\ UNCHANGED <<clientsCreated, sigintHandler, sigints, closeCalls>>

\* ------------------------------------------------------------------ inputs
SelectOne == <<"S","E","L","E","C","T"," ","1">>
DropTableT == <<"D","r","o","p"," ","t">>
HowMany == <<"h","o","w"," ","m","a","n","y","?">>

SmallQueries == {SelectOne, DropTableT}
Questions == {HowMany, DropTableT}

\* Generated SQL texts: white space, a prefix, a word in one of three
\* spellings, a suffix, white space.
NearMisses ==
  { <<"s","e","l","e","c","t">>, <<"d","r","o">>, <<"d","r"," ","o","p">>,
    <<"t","r","u","n","c","a","t","e">>, <<"r","e","a","t","e">> }
MixedCase(w) ==
  [k \in 1..Len(w) |-> IF k % 2 = 1 THEN ToUpperCase(<<w[k]>>)[1] ELSE w[k]]
Spellings(w) == {w, ToUpperCase(w), MixedCase(w)}
Prefixes == { <<>>, <<"x">>, <<"s","e","l","e","c","t"," ","'">> }
Suffixes == { <<>>, <<" ","t">>, <<"'">> }
Pad(k, c) == [j \in 1..k |-> c]
GuardQueries ==
  { Pad(a, " ") \o p \o v \o x \o Pad(b, "\n") :
      a \in 0..MaxPad, b \in 0..MaxPad, p \in Prefixes, x \in Suffixes,
      v \in UNION {Spellings(w) : w \in BlockedWords \cup NearMisses} }

\* ---------------------------------------------------------- specifications
AllSet == [s \in Settings |-> "analytics"]
DefaultTables == {"events", "users"}

\* The server once startServer() has connected it, with n request slots.
Running(n) ==
  /\ env = AllSet
  /\ phase = "running"
  /\ clientsCreated = 1
  /\ sigintHandler = TRUE
  /\ sigints = 0
  /\ closeCalls = 0
  /\ closePending = 0
  /\ exitCode = <<>>
  /\ dbTables = DefaultTables
  /\ req = [r \in 1..n |-> IdleReq]

\* --- Spec: the connected server answering requests, while the database
\* fails calls and other clients create and drop tables.
Init == Running(MaxReq)

Requests(r) ==
  \/ ReadDatabaseInfo(r)
  \/ \E kind \in ListKinds : ListResources(r, kind)
  \/ \E t \in TableNames, isArray \in BOOLEAN : ReadTableSchema(r, t, isArray)
  \/ \E t \in TableNames, isArray \in BOOLEAN : ReadTableSample(r, t, isArray)
  \/ \E query \in SmallQueries : CallExecuteSql(r, query)
  \/ \E question \in Questions : CallNaturalLanguageQuery(r, question)

Answers(r) ==
  \/ ListTablesReturn(r)
  \/ GetTableSchemaReturn(r)
  \/ ExecuteQueryReturn(r)
  \/ GetTableSampleDataReturn(r)

Failures(r) ==
  \/ \E error \in DbFailures : ListTablesThrow(r, error)
  \/ \E error \in DbFailures \cup {UnknownTable} : GetTableSchemaThrow(r, error)
  \/ \E error \in DbFailures : ExecuteQueryThrow(r, error)
  \/ \E error \in DbFailures \cup {UnknownTable} : GetTableSampleDataThrow(r, error)

Next ==
  \/ \E r \in DOMAIN req : Requests(r) \/ Answers(r) \/ Failures(r)
  \/ \E t \in VolatileTables : CreateTable(t) \/ DropTable(t)

Spec == Init /\ [][Next]_vars

\* --- SpecLife: the process from its start, under every combination of the
\* four settings, with interrupts at any moment and one request slot.
InitLife ==
  /\ env \in [Settings -> SettingValues]
  /\ phase = "import"
  /\ clientsCreated = 0
  /\ sigintHandler = FALSE
  /\ sigints = 0
  /\ closeCalls = 0
  /\ closePending = 0
  /\ exitCode = <<>>
  /\ dbTables = DefaultTables
  /\ req = [r \in {1} |-> IdleReq]

NextLife ==
  \/ LoadServiceModule
  \/ ConstructService
  \/ StartServer
  \/ ConnectResolved
  \/ ConnectRejected
  \/ CatchCloseResolved
  \/ SigintDefault
  \/ SigintHandler
  \/ SigintCloseResolved
  \/ ReadDatabaseInfo(1)
  \/ \E query \in SmallQueries : CallExecuteSql(1, query)
  \/ ReadTableSample(1, "events", FALSE)
  \/ Answers(1)

SpecLife == InitLife /\ [][NextLife]_vars

\* --- SpecGuard: execute-sql alone, over the generated SQL texts.
InitGuard == Running(1)

NextGuard ==
  \/ \E query \in GuardQueries : CallExecuteSql(1, query)
  \/ ExecuteQueryReturn(1)
  \/ \E error \in DbFailures : ExecuteQueryThrow(1, error)

SpecGuard == InitGuard /\ [][NextGuard]_vars

\* --- SpecConc: several requests alive at once on the connected server,
\* with the interrupt-triggered shutdown.
InitConc == Running(MaxConc)

NextConc ==
  \/ SigintHandler
  \/ SigintCloseResolved
  \/ \E r \in DOMAIN req :
       \/ ReadDatabaseInfo(r)
       \/ ListResources(r, "table-schema/list")
       \/ ReadTableSchema(r, "events", FALSE)
       \/ ReadTableSample(r, "users", FALSE)
       \/ \E query \in SmallQueries : CallExecuteSql(r, query)
       \/ CallNaturalLanguageQuery(r, HowMany)
       \/ Answers(r)

SpecConc == InitConc /\ [][NextConc]_vars


\* ------------------------------------------------------------------ claims
\* Claim-side reading of "contains a blocked word, case-insensitively": at
\* some position the letters of the text are, up to case, those of the word.
ContainsBlockedWord(text) ==
  \E w \in BlockedWords : \E k \in 0..(Len(text) - Len(w)) :
    \A j \in 1..Len(w) : LetterIndex(text[k + j]) = LetterIndex(w[j])

ExecuteSqlSlots == {r \in DOMAIN req : req[r].kind = "execute-sql"}

\* C1: every execute-sql call whose SQL text contains insert, update, delete,
\* drop, alter or create anywhere, in any letter case, ends with an
\* error-flagged response whose text starts with "Error: " (and names the
\* read-only rule), and issues no database call.
C1_BlockedQueryNeverReachesDatabase ==
  \A r \in ExecuteSqlSlots :
    ContainsBlockedWord(req[r].text) =>
      /\ req[r].pc = "done"
      /\ req[r].calls = <<>>
      /\ req[r].resp.outcome = "returned"
      /\ req[r].resp.isError
      /\ req[r].resp.text[1] = "Error: "
      /\ req[r].resp.text = <<"Error: ", "Only read-only queries are allowed">>

\* A blocked word spelled with capitals, inside a longer text, was refused.
C1_Witness ==
  \E r \in ExecuteSqlSlots :
    /\ ContainsBlockedWord(req[r].text)
    /\ ~ \E w \in BlockedWords : Includes(req[r].text, w)
    /\ Len(req[r].text) > 8
    /\ req[r].pc = "done"
    /\ req[r].resp.isError

\* C2: every execute-sql call whose SQL text contains none of the six words
\* issues exactly one database call, and the query text of that call is the
\* input text itself, not its trimmed or lowercased copy.
C2_AllowedQueryForwardedUnmodified ==
  \A r \in ExecuteSqlSlots :
    ~ContainsBlockedWord(req[r].text) =>
      /\ Len(req[r].calls) = 1
      /\ req[r].calls[1].op = "raw"
      /\ req[r].calls[1].query = req[r].text

\* An allowed text that trimming and lowercasing would change was answered.
C2_Witness ==
  \E r \in ExecuteSqlSlots :
    /\ ~ContainsBlockedWord(req[r].text)
    /\ Trim(req[r].text) # req[r].text
    /\ ToLowerCase(req[r].text) # req[r].text
    /\ req[r].pc = "done"
    /\ req[r].resp.outcome = "returned"
    /\ ~req[r].resp.isError


\* Claim-side reading of "<message>": the message of an Error, the text of
\* any other thrown value.
MessageOf(error) == IF error.instanceofError THEN error.message ELSE error.value

DatabaseInfoSlots ==
  {r \in DOMAIN req : req[r].kind \in {"database-info", "natural-language-query"}}

TablesOf(rows) == [k \in 1..Len(rows) |-> rows[k].name]
Range(seq) == {seq[k] : k \in 1..Len(seq)}

\* C3: when its operation fails, a resource read ends with that error thrown
\* to the protocol layer and never with a response; a tool call ends with a
\* response flagged isError whose text is "Error: <message>", and never
\* throws; a chain that did not fail ends with an unflagged response.
C3_ErrorRoutingAsymmetric ==
  \A r \in DOMAIN req :
    /\ req[r].kind \in ToolKinds => req[r].resp.outcome # "thrown"
    /\ req[r].failure # <<>> =>
         /\ req[r].pc = "done"
         /\ IF req[r].kind \in ToolKinds
            THEN /\ req[r].resp.outcome = "returned"
                 /\ req[r].resp.isError
                 /\ req[r].resp.text = <<"Error: ", MessageOf(req[r].failure[1])>>
            ELSE /\ req[r].resp.outcome = "thrown"
                 /\ req[r].resp.error = req[r].failure[1]
    /\ (req[r].pc = "done" /\ req[r].failure = <<>>) =>
         /\ req[r].resp.outcome = "returned"
         /\ ~req[r].resp.isError

\* A natural-language-query whose schema fetch failed on a table dropped
\* after the listing answered in band.
C3_Witness ==
  \E r \in DOMAIN req :
    /\ req[r].kind = "natural-language-query"
    /\ req[r].failure = <<UnknownTable>>
    /\ Len(req[r].calls) >= 2
    /\ req[r].resp.outcome = "returned"
    /\ req[r].resp.isError

\* C4: every snapshot getDatabaseInfo() returns lists exactly the tables the
\* database answered the listing of that call with, and its schemas mapping
\* has exactly one entry per listed table, whatever tables other clients
\* create or drop during the call.
C4_SnapshotMatchesListedTables ==
  \A r \in DOMAIN req :
    (req[r].kind = "database-info" /\ req[r].resp.outcome = "returned") =>
      LET snapshot == req[r].resp.contents.text.json
      IN  /\ snapshot.tables = TablesOf(req[r].listed)
          /\ ObjectKeys(snapshot.schemas) = Range(snapshot.tables)
          /\ Len(snapshot.schemas) = Len(snapshot.tables)

\* C5: when the listing or the schema fetch of a listed table fails inside
\* getDatabaseInfo(), the call fails with that very error (db://info throws
\* it, natural-language-query reports it), no snapshot is returned, and the
\* failed call is the last one issued: the fetches made are those of the
\* tables up to the failing one, in list order.
C5_FailureAbortsDatabaseInfo ==
  \A r \in DatabaseInfoSlots :
    req[r].failure # <<>> =>
      /\ req[r].pc = "done"
      /\ req[r].kind = "database-info" =>
           /\ req[r].resp.outcome = "thrown"
           /\ req[r].resp.error = req[r].failure[1]
      /\ req[r].kind = "natural-language-query" =>
           /\ req[r].resp.isError
           /\ req[r].resp.text = <<"Error: ", MessageOf(req[r].failure[1])>>
      /\ req[r].answered = Len(req[r].calls)
      /\ Len(req[r].calls) - 1 <= Len(req[r].tables)
      /\ \A k \in 2..Len(req[r].calls) :
           /\ req[r].calls[k].op = "DESCRIBE TABLE"
           /\ req[r].calls[k].table = req[r].tables[k - 1]

\* The schema fetch of the second of three listed tables failed.
C5_Witness ==
  \E r \in DatabaseInfoSlots :
    /\ req[r].kind = "database-info"
    /\ req[r].failure # <<>>
    /\ Len(req[r].tables) = 3
    /\ Len(req[r].calls) = 3

\* C9: a natural-language-query call issues only the table listing and the
\* schema introspection of the listed tables, never a raw query and never
\* the question text; on success its response carries the question verbatim
\* and one "Table X has columns" line for every table of the snapshot.
C9_NaturalLanguageQueryOnlyIntrospects ==
  \A r \in DOMAIN req :
    req[r].kind = "natural-language-query" =>
      /\ Len(req[r].calls) >= 1
      /\ req[r].calls[1].op = "SHOW TABLES FROM"
      /\ \A k \in 2..Len(req[r].calls) :
           /\ req[r].calls[k].op = "DESCRIBE TABLE"
           /\ req[r].calls[k].table = req[r].tables[k - 1]
      /\ (req[r].resp.outcome = "returned" /\ ~req[r].resp.isError) =>
           /\ req[r].resp.text.question = req[r].text
           /\ Len(req[r].resp.text.schemaInfo) = Len(req[r].tables)
           /\ \A k \in 1..Len(req[r].tables) :
                \E j \in 1..Len(req[r].resp.text.schemaInfo) :
                  req[r].resp.text.schemaInfo[j].table = req[r].tables[k]


\* Claim-side reading of "a required setting is missing or empty".
SettingMissing == \E s \in Settings : env[s] = Unset \/ env[s] = ""

\* C6 as stated, read on the processes that constructed the handle: the
\* handle is constructed once, close() is never called twice, and a process
\* that ended (interrupt or startup error, at any moment) called it once.
C6_HandleClosedExactlyOnce ==
  /\ clientsCreated <= 1
  /\ closeCalls <= 1
  /\ (phase = "exited" /\ clientsCreated = 1) => closeCalls = 1

\* C6 amended: the handle is constructed at most once, exactly once from
\* index.ts line 7 on.  close() is called once by the catch block of
\* startServer and once by every interrupt the registered handler receives;
\* it is not called before, so not on a configuration error and not for an
\* interrupt that arrives before the handler is registered.
C6_CloseOncePerHandledInterrupt ==
  /\ clientsCreated <= 1
  /\ phase \in {"import", "validated"} => clientsCreated = 0
  /\ phase \in {"constructed", "connecting", "running", "catch"} =>
       clientsCreated = 1
  /\ sigintHandler => closeCalls = sigints
  /\ (~sigintHandler /\ phase \in {"import", "validated", "constructed",
                                   "connecting"}) => closeCalls = 0
  /\ phase = "catch" => closeCalls = 1
  /\ (phase = "exited" /\ exitCode = <<1>>) =>
       IF SettingMissing
       THEN clientsCreated = 0 /\ closeCalls = 0
       ELSE clientsCreated = 1 /\ closeCalls = 1
  /\ (phase = "exited" /\ exitCode = <<128 + 2>>) =>
       ~sigintHandler /\ closeCalls <= 1
  /\ (phase = "exited" /\ exitCode = <<0>>) =>
       sigintHandler /\ sigints >= 1

\* A second interrupt arrived while the first close was awaited: the process
\* ended with code 0 after two close() calls.
C6_Witness ==
  /\ phase = "exited"
  /\ exitCode = <<0>>
  /\ closeCalls = 2

\* C7: with any of the four settings missing or empty the process never
\* creates the database client, never reaches server.connect, registers no
\* handler and issues no database call; when it ends, it ends in failure.
C7_MissingSettingStopsStartup ==
  SettingMissing =>
    /\ clientsCreated = 0
    /\ phase \in {"import", "exited"}
    /\ ~sigintHandler
    /\ closeCalls = 0
    /\ \A r \in DOMAIN req : req[r].pc = "idle" /\ req[r].calls = <<>>
    /\ phase = "exited" => exitCode # <<0>>

\* The process ended with code 1 because the database name alone was empty.
C7_Witness ==
  /\ phase = "exited"
  /\ exitCode = <<1>>
  /\ env["CLICKHOUSE_DATABASE"] = ""
  /\ \A s \in Settings \ {"CLICKHOUSE_DATABASE"} : env[s] = "analytics"

\* C8 as stated: whenever the process has ended, close() had been attempted
\* before; it ended with code 0 if an interrupt was delivered, and with a
\* non-zero code otherwise (startup errors, configuration errors included).
C8_ExitOnlyAfterClose ==
  phase = "exited" =>
    /\ closeCalls >= 1
    /\ sigints >= 1 => exitCode = <<0>>
    /\ sigints = 0 => exitCode # <<0>>

\* C8 amended: exit code 0 is reached only through the registered SIGINT
\* handler, after its close() call and once a close has resolved; a failure
\* of server.connect leads to one close() and then exit code 1; a
\* configuration error ends the process with code 1 and no close attempt (no
\* handle exists); an interrupt that finds no handler registered ends it at
\* once with a non-zero status.
C8_ExitAfterCloseOnHandledPaths ==
  phase = "exited" =>
    /\ exitCode \in {<<0>>, <<1>>, <<128 + 2>>}
    /\ exitCode = <<0>> =>
         /\ sigintHandler /\ sigints >= 1
         /\ closeCalls >= 1
         /\ closePending = closeCalls - 1
    /\ exitCode = <<1>> =>
         /\ sigints = 0 /\ ~sigintHandler
         /\ IF SettingMissing
            THEN closeCalls = 0 /\ clientsCreated = 0
            ELSE closeCalls = 1 /\ clientsCreated = 1
    /\ exitCode = <<128 + 2>> => ~sigintHandler /\ sigints >= 1

\* One interrupt after startup: close() was called, resolved, and the
\* process ended with code 0.
C8_Witness ==
  /\ phase = "exited"
  /\ exitCode = <<0>>
  /\ sigints = 1
  /\ closeCalls = 1
  /\ closePending = 0


\* Database calls of slot r issued on the handle and not yet answered.
InFlight(r) == Len(req[r].calls) - req[r].answered

RECURSIVE TotalInFlight(_)
TotalInFlight(slots) ==
  IF slots = {} THEN 0
  ELSE LET r == CHOOSE x \in slots : TRUE
       IN InFlight(r) + TotalInFlight(slots \ {r})

\* Within one getDatabaseInfo() call: the listing first, then one DESCRIBE
\* per listed table, in list order, each issued after the previous answer.
SchemaFetchesInListOrder(r) ==
  req[r].kind \in {"database-info", "natural-language-query"} =>
    \A k \in 1..Len(req[r].calls) :
      IF k = 1
      THEN req[r].calls[k].op = "SHOW TABLES FROM"
      ELSE /\ req[r].calls[k].op = "DESCRIBE TABLE"
           /\ k - 1 <= Len(req[r].tables)
           /\ req[r].calls[k].table = req[r].tables[k - 1]
           /\ req[r].answered >= k - 1

\* C10 as stated: at most one database call is in flight on the shared
\* handle, over all requests, and the schema fetches of one
\* getDatabaseInfo() are sequential in list order.
C10_AtMostOneCallInFlight ==
  /\ TotalInFlight(DOMAIN req) <= 1
  /\ \A r \in DOMAIN req : SchemaFetchesInListOrder(r)

\* C10 amended: every request has at most one database call in flight,
\* exactly while its handler is suspended at an await, and the schema
\* fetches of one getDatabaseInfo() are sequential in list order; calls of
\* different requests overlap on the handle.
C10_OneCallInFlightPerRequest ==
  \A r \in DOMAIN req :
    /\ InFlight(r) \in {0, 1}
    /\ Alive => (InFlight(r) = 1 <=> req[r].pc \in AwaitPcs)
    /\ SchemaFetchesInListOrder(r)

\* A getDatabaseInfo() waits for its second schema while another request
\* has its own call in flight on the same handle.
C10_Witness ==
  \E r1, r2 \in DOMAIN req :
    /\ r1 # r2
    /\ req[r1].kind = "database-info"
    /\ req[r1].pc = "getTableSchema"
    /\ req[r1].i = 2
    /\ InFlight(r1) = 1
    /\ InFlight(r2) = 1


\* Two statements handed to the handle are the same database call.
SameStatement(a, b) ==
  /\ a.op = b.op
  /\ a.op \in {"DESCRIBE TABLE", "SELECT * FROM"} => a.table = b.table
  /\ a.op = "raw" => a.query = b.query

\* C11: nothing is retried.  Every step that issues a database call for a
\* request issues exactly one, for a request none of whose calls has failed,
\* and the statement is one the request has not issued before.
C11_NothingRetried ==
  [][\A r \in DOMAIN req :
       req'[r].calls # req[r].calls =>
         \/ req'[r] = IdleReq
         \/ /\ req[r].failure = <<>>
            /\ Len(req'[r].calls) = Len(req[r].calls) + 1
            /\ \A k \in 1..Len(req[r].calls) :
                 /\ req'[r].calls[k] = req[r].calls[k]
                 /\ ~SameStatement(req[r].calls[k],
                                   req'[r].calls[Len(req'[r].calls)])]_vars

\* A getDatabaseInfo() listed two tables, the first schema fetch failed, and
\* the request ended with the two calls it had issued until then.
C11_Witness ==
  \E r \in DOMAIN req :
    /\ req[r].kind = "database-info"
    /\ req[r].pc = "done"
    /\ req[r].failure # <<>>
    /\ req[r].failure[1] \in DbFailures
    /\ Len(req[r].tables) = 2
    /\ Len(req[r].calls) = 2
    /\ req[r].answered = 2


\* C12: no database call is issued on the handle once close() has been
\* invoked on it, and no database call is in flight when close() is invoked
\* or afterwards.
C12_NoCallOnClosedHandle ==
  \A r \in DOMAIN req :
    /\ \A k \in 1..Len(req[r].calls) : ~req[r].calls[k].closed
    /\ HandleClosed => InFlight(r) = 0

====
